---- MODULE Spec2Model ----
(***************************************************************************)
(* The Value union of src/value/mod.rs, its optional accessors, its        *)
(* From / TryFrom conversions and the 2-tuple destructuring of an iterator *)
(* of Values, driven by a client that builds Values, calls the accessors   *)
(* and conversions on them and destructures an iterator over a vector.     *)
(***************************************************************************)
EXTENDS Integers, Sequences, FiniteSets, TLC

(***************************************************************************)
(* Bounds of the model                                                     *)
(***************************************************************************)
\* integer payloads range over -MaxInt .. MaxInt
MaxInt == 1
\* strings, byte vectors and arrays have at most MaxLen elements
MaxLen == 1
\* the vector the iterator walks has at most MaxSeqLen Values
MaxSeqLen == 3

(***************************************************************************)
(* enum Value                                                              *)
(***************************************************************************)
Value_Int(i) == [tag |-> "Int", val |-> i]

Int64(i) == [tag |-> "Int64", val |-> i]

Bool(b) == [tag |-> "Bool", val |-> b]

String(s) == [tag |-> "String", val |-> s]

Double(d) == [tag |-> "Double", val |-> d]

DateTime(dt) == [tag |-> "DateTime", val |-> dt]

Base64(data) == [tag |-> "Base64", val |-> data]

Struct(map) == [tag |-> "Struct", val |-> map]

Array(array) == [tag |-> "Array", val |-> array]

Nil == [tag |-> "Nil"]

(***************************************************************************)
(* Option and Result                                                       *)
(***************************************************************************)
None == [some |-> FALSE]

Some(x) == [some |-> TRUE, val |-> x]

Err == [ok |-> FALSE]

Ok(x) == [ok |-> TRUE, val |-> x]

\* Result::ok : Ok(x) -> Some(x), Err(_) -> None
ok(r) == IF r.ok THEN Some(r.val) ELSE None

(***************************************************************************)
(* Native inputs the client draws from                                     *)
(***************************************************************************)
\* a native integer is its number together with the width of its type
i32(n) == [w |-> 32, n |-> n]

i64(n) == [w |-> 64, n |-> n]

SeqsUpTo(S, n) == UNION {[1..k -> S] : k \in 0..n}

I32Vals == {i32(n) : n \in (0 - MaxInt)..MaxInt}

\* 64-bit payloads; the number of every one of them also fits in 32 bits
I64Vals == {i64(n) : n \in (0 - MaxInt)..MaxInt}

BoolVals == {TRUE, FALSE}

\* a string is the sequence of its characters
StrVals == SeqsUpTo({"2", "x"}, MaxLen)

\* f64 payloads by their bit pattern's literal; NaN is one of them
F64Vals == {"0.0", "-0.0", "1.5", "NaN"}

DateTimeVals == {[date |-> d, time |-> 0] : d \in 0..1}

BytesVals == SeqsUpTo({0, 255}, MaxLen)

\* Values nested inside arrays and structs
NestedVals == {Value_Int(i32(1)), Nil}

ArrayVals == SeqsUpTo(NestedVals, MaxLen)

StructKeys == {<<"a">>, <<"b">>}

StructVals == UNION {[K -> NestedVals] : K \in SUBSET StructKeys}

\* Values the iterated vector is built from
ElemVals == {Value_Int(i32(1)), String(<<"2">>), String(<<"x">>)}

VecVals == SeqsUpTo(ElemVals, MaxSeqLen)

\* the native target types of the strict conversions
Types == {"i32", "i64", "bool", "str", "f64", "DateTime", "Vec<u8>", "Vec<Value>", "BTreeMap"}

(***************************************************************************)
(* impl Value: the optional accessors                                      *)
(***************************************************************************)
\* as_i32 that narrows a 64-bit payload (i as i32) instead of refusing it
as_i32_narrowing(self) ==
  CASE self.tag = "Int" -> Some(self.val)
    [] self.tag = "Int64" -> Some(i32(self.val.n))
    [] OTHER -> None

as_i32(self) == IF self.tag = "Int" THEN Some(self.val) ELSE None

\* i64::from(i32) widens by sign extension: a 64-bit integer of the same number
i64_from(i) == i64(i.n)

\* as_i64 that matches Value::Int64 alone
as_i64_exact(self) == IF self.tag = "Int64" THEN Some(self.val) ELSE None

as_i64(self) ==
  CASE self.tag = "Int" -> Some(i64_from(self.val))
    [] self.tag = "Int64" -> Some(self.val)
    [] OTHER -> None

as_bool(self) == IF self.tag = "Bool" THEN Some(self.val) ELSE None

as_str(self) == IF self.tag = "String" THEN Some(self.val) ELSE None

as_f64(self) == IF self.tag = "Double" THEN Some(self.val) ELSE None

as_datetime(self) == IF self.tag = "DateTime" THEN Some(self.val) ELSE None

as_bytes(self) == IF self.tag = "Base64" THEN Some(self.val) ELSE None

as_struct(self) == IF self.tag = "Struct" THEN Some(self.val) ELSE None

as_array(self) == IF self.tag = "Array" THEN Some(self.val) ELSE None

(***************************************************************************)
(* impl From<T> for Value                                                  *)
(***************************************************************************)
From_i32(other) == Value_Int(other)

\* From<i64> that demotes a payload fitting 32 bits to Value::Int
From_i64_demoting(other) ==
  IF other.n >= (0 - 2147483647) - 1 /\ other.n <= 2147483647
  THEN Value_Int(i32(other.n))
  ELSE Int64(other)

From_i64(other) == Int64(other)

From_bool(other) == Bool(other)

From_String(other) == String(other)

\* str::to_string copies the characters into a new String
\* to_string that loses the last character
to_string_truncating(s) == [k \in 1..(Len(s) - 1) |-> s[k]]

to_string(s) == [k \in 1..Len(s) |-> s[k]]

From_str(other) == String(to_string(other))

From_f64(other) == Double(other)

From_DateTime(other) == DateTime(other)

From_VecValue(other) == Array(other)

From_BTreeMap(other) == Struct(other)

From_VecU8(other) == Base64(other)

(***************************************************************************)
(* impl TryFrom<&Value> for &T                                             *)
(***************************************************************************)
TryFrom_i32(value) == IF value.tag = "Int" THEN Ok(value.val) ELSE Err

\* TryFrom for &i64 that widens Value::Int as as_i64 does
TryFrom_i64_widening(value) ==
  CASE value.tag = "Int" -> Ok(i64_from(value.val))
    [] value.tag = "Int64" -> Ok(value.val)
    [] OTHER -> Err

TryFrom_i64(value) == IF value.tag = "Int64" THEN Ok(value.val) ELSE Err

TryFrom_bool(value) == IF value.tag = "Bool" THEN Ok(value.val) ELSE Err

TryFrom_str(value) ==
  LET val == as_str(value)
  IN IF val.some THEN Ok(val.val) ELSE Err

TryFrom_f64(value) == IF value.tag = "Double" THEN Ok(value.val) ELSE Err

TryFrom_DateTime(value) == IF value.tag = "DateTime" THEN Ok(value.val) ELSE Err

TryFrom_VecValue(value) == IF value.tag = "Array" THEN Ok(value.val) ELSE Err

TryFrom_BTreeMap(value) == IF value.tag = "Struct" THEN Ok(value.val) ELSE Err

\* TryFrom for &Vec<u8> whose match arm names the wrong variant
TryFrom_VecU8_wrong_arm(value) == IF value.tag = "String" THEN Ok(value.val) ELSE Err

TryFrom_VecU8(value) == IF value.tag = "Base64" THEN Ok(value.val) ELSE Err

\* value.try_into() at target type T, resolved by the bound T: TryFrom<&Value>
try_into(T, value) ==
  CASE T = "i32" -> TryFrom_i32(value)
    [] T = "i64" -> TryFrom_i64(value)
    [] T = "bool" -> TryFrom_bool(value)
    [] T = "str" -> TryFrom_str(value)
    [] T = "f64" -> TryFrom_f64(value)
    [] T = "DateTime" -> TryFrom_DateTime(value)
    [] T = "Vec<Value>" -> TryFrom_VecValue(value)
    [] T = "BTreeMap" -> TryFrom_BTreeMap(value)
    [] T = "Vec<u8>" -> TryFrom_VecU8(value)

(***************************************************************************)
(* The iterator over the vector and TryCollectValue<(A, B)>                *)
(***************************************************************************)
\* Iterator::next of vec.iter() with p elements taken: the next element and
\* the advanced position, or None with the position kept at the end
next(s, p) ==
  IF p < Len(s) THEN [item |-> Some(s[p + 1]), pos |-> p + 1]
  ELSE [item |-> None, pos |-> p]

\* try_collect_value that converts the first element twice
try_collect_value_first_twice(s, p, A, B) ==
  LET n1 == next(s, p)
  IN IF ~n1.item.some THEN [res |-> None, pos |-> n1.pos, converted |-> <<>>]
     ELSE LET a == ok(try_into(A, n1.item.val))
              n2 == next(s, n1.pos)
              b == ok(try_into(B, n1.item.val))
          IN IF a.some /\ n2.item.some /\ b.some
             THEN [res |-> Some(<<a.val, b.val>>), pos |-> n2.pos,
                   converted |-> <<n1.pos, n1.pos>>]
             ELSE [res |-> None, pos |-> n2.pos, converted |-> <<n1.pos>>]

\* try_collect_value that does not check the second conversion: a failed second
\* position leaves the pair half filled
try_collect_value_unchecked(s, p, A, B) ==
  LET n1 == next(s, p)
  IN IF ~n1.item.some THEN [res |-> None, pos |-> n1.pos, converted |-> <<>>]
     ELSE LET a == ok(try_into(A, n1.item.val))
          IN IF ~a.some THEN [res |-> None, pos |-> n1.pos, converted |-> <<n1.pos>>]
             ELSE LET n2 == next(s, n1.pos)
                  IN IF ~n2.item.some
                     THEN [res |-> None, pos |-> n2.pos, converted |-> <<n1.pos>>]
                     ELSE [res |-> Some(<<a.val, ok(try_into(B, n2.item.val))>>),
                           pos |-> n2.pos, converted |-> <<n1.pos, n2.pos>>]

\* try_collect_value that takes both elements before it converts either
try_collect_value_eager(s, p, A, B) ==
  LET n1 == next(s, p)
      n2 == next(s, n1.pos)
  IN IF ~n1.item.some \/ ~n2.item.some
     THEN [res |-> None, pos |-> n2.pos, converted |-> <<>>]
     ELSE LET a == ok(try_into(A, n1.item.val))
              b == ok(try_into(B, n2.item.val))
          IN IF a.some /\ b.some
             THEN [res |-> Some(<<a.val, b.val>>), pos |-> n2.pos,
                   converted |-> <<n1.pos, n2.pos>>]
             ELSE [res |-> None, pos |-> n2.pos, converted |-> <<n1.pos, n2.pos>>]

\* res: the returned Option<(A, B)>; pos: the iterator afterwards;
\* converted: the indices of the elements try_into was called on, in call order
try_collect_value(s, p, A, B) ==
  LET n1 == next(s, p)
  IN IF ~n1.item.some THEN [res |-> None, pos |-> n1.pos, converted |-> <<>>]
     ELSE LET a == ok(try_into(A, n1.item.val))
          IN IF ~a.some THEN [res |-> None, pos |-> n1.pos, converted |-> <<n1.pos>>]
             ELSE LET n2 == next(s, n1.pos)
                  IN IF ~n2.item.some
                     THEN [res |-> None, pos |-> n2.pos, converted |-> <<n1.pos>>]
                     ELSE LET b == ok(try_into(B, n2.item.val))
                          IN IF ~b.some
                             THEN [res |-> None, pos |-> n2.pos,
                                   converted |-> <<n1.pos, n2.pos>>]
                             ELSE [res |-> Some(<<a.val, b.val>>), pos |-> n2.pos,
                                   converted |-> <<n1.pos, n2.pos>>]

(***************************************************************************)
(* State                                                                   *)
(***************************************************************************)
VARIABLES
  v,     \* the Value the client holds
  src,   \* the native input v was built from: its type and the input
  vec,   \* the vector of Values the iterator walks
  pos,   \* the number of elements the iterator has yielded
  last   \* the last call made: its name, its argument and what it returned

vars == <<v, src, vec, pos, last>>

\* The Values a call can be applied to: v and the elements of vec
Subjects == {v} \cup {vec[k] : k \in 1..Len(vec)}

Init ==
  /\ v = Nil
  /\ src = [ty |-> "none"]
  /\ vec = <<>>
  /\ pos = 0
  /\ last = [op |-> "none"]

InitT ==
  /\ v = Nil
  /\ src = [ty |-> "none"]
  /\ vec \in VecVals
  /\ pos = 0
  /\ last = [op |-> "none"]

(***************************************************************************)
(* The client's calls.  Every call records itself in last.                 *)
(***************************************************************************)
\* let v = Value::from(x): the client replaces the Value it holds
CallFromI32 ==
  \E x \in I32Vals :
    /\ v' = From_i32(x)
    /\ src' = [ty |-> "i32", val |-> x]
    /\ last' = [op |-> "from", ty |-> "i32", arg |-> x, res |-> From_i32(x)]
    /\ UNCHANGED <<vec, pos>>

CallFromI64 ==
  \E x \in I64Vals :
    /\ v' = From_i64(x)
    /\ src' = [ty |-> "i64", val |-> x]
    /\ last' = [op |-> "from", ty |-> "i64", arg |-> x, res |-> From_i64(x)]
    /\ UNCHANGED <<vec, pos>>

CallFromBool ==
  \E x \in BoolVals :
    /\ v' = From_bool(x)
    /\ src' = [ty |-> "bool", val |-> x]
    /\ last' = [op |-> "from", ty |-> "bool", arg |-> x, res |-> From_bool(x)]
    /\ UNCHANGED <<vec, pos>>

CallFromString ==
  \E x \in StrVals :
    /\ v' = From_String(x)
    /\ src' = [ty |-> "String", val |-> x]
    /\ last' = [op |-> "from", ty |-> "String", arg |-> x, res |-> From_String(x)]
    /\ UNCHANGED <<vec, pos>>

CallFromStr ==
  \E x \in StrVals :
    /\ v' = From_str(x)
    /\ src' = [ty |-> "&str", val |-> x]
    /\ last' = [op |-> "from", ty |-> "&str", arg |-> x, res |-> From_str(x)]
    /\ UNCHANGED <<vec, pos>>

CallFromF64 ==
  \E x \in F64Vals :
    /\ v' = From_f64(x)
    /\ src' = [ty |-> "f64", val |-> x]
    /\ last' = [op |-> "from", ty |-> "f64", arg |-> x, res |-> From_f64(x)]
    /\ UNCHANGED <<vec, pos>>

CallFromDateTime ==
  \E x \in DateTimeVals :
    /\ v' = From_DateTime(x)
    /\ src' = [ty |-> "DateTime", val |-> x]
    /\ last' = [op |-> "from", ty |-> "DateTime", arg |-> x, res |-> From_DateTime(x)]
    /\ UNCHANGED <<vec, pos>>

CallFromVecValue ==
  \E x \in ArrayVals :
    /\ v' = From_VecValue(x)
    /\ src' = [ty |-> "Vec<Value>", val |-> x]
    /\ last' = [op |-> "from", ty |-> "Vec<Value>", arg |-> x, res |-> From_VecValue(x)]
    /\ UNCHANGED <<vec, pos>>

CallFromBTreeMap ==
  \E x \in StructVals :
    /\ v' = From_BTreeMap(x)
    /\ src' = [ty |-> "BTreeMap", val |-> x]
    /\ last' = [op |-> "from", ty |-> "BTreeMap", arg |-> x, res |-> From_BTreeMap(x)]
    /\ UNCHANGED <<vec, pos>>

CallFromVecU8 ==
  \E x \in BytesVals :
    /\ v' = From_VecU8(x)
    /\ src' = [ty |-> "Vec<u8>", val |-> x]
    /\ last' = [op |-> "from", ty |-> "Vec<u8>", arg |-> x, res |-> From_VecU8(x)]
    /\ UNCHANGED <<vec, pos>>

\* s.as_*(): an accessor applied to a Value the client holds
CallAsI32 ==
  \E s \in Subjects :
    /\ last' = [op |-> "as_i32", arg |-> s, res |-> as_i32(s)]
    /\ UNCHANGED <<v, src, vec, pos>>

CallAsI64 ==
  \E s \in Subjects :
    /\ last' = [op |-> "as_i64", arg |-> s, res |-> as_i64(s)]
    /\ UNCHANGED <<v, src, vec, pos>>

CallAsBool ==
  \E s \in Subjects :
    /\ last' = [op |-> "as_bool", arg |-> s, res |-> as_bool(s)]
    /\ UNCHANGED <<v, src, vec, pos>>

CallAsStr ==
  \E s \in Subjects :
    /\ last' = [op |-> "as_str", arg |-> s, res |-> as_str(s)]
    /\ UNCHANGED <<v, src, vec, pos>>

CallAsF64 ==
  \E s \in Subjects :
    /\ last' = [op |-> "as_f64", arg |-> s, res |-> as_f64(s)]
    /\ UNCHANGED <<v, src, vec, pos>>

CallAsDatetime ==
  \E s \in Subjects :
    /\ last' = [op |-> "as_datetime", arg |-> s, res |-> as_datetime(s)]
    /\ UNCHANGED <<v, src, vec, pos>>

CallAsBytes ==
  \E s \in Subjects :
    /\ last' = [op |-> "as_bytes", arg |-> s, res |-> as_bytes(s)]
    /\ UNCHANGED <<v, src, vec, pos>>

CallAsStruct ==
  \E s \in Subjects :
    /\ last' = [op |-> "as_struct", arg |-> s, res |-> as_struct(s)]
    /\ UNCHANGED <<v, src, vec, pos>>

CallAsArray ==
  \E s \in Subjects :
    /\ last' = [op |-> "as_array", arg |-> s, res |-> as_array(s)]
    /\ UNCHANGED <<v, src, vec, pos>>

\* <&T>::try_from(&s): a strict conversion applied to a Value the client holds
CallTryFromI32 ==
  \E s \in Subjects :
    /\ last' = [op |-> "try_from", ty |-> "i32", arg |-> s, res |-> TryFrom_i32(s)]
    /\ UNCHANGED <<v, src, vec, pos>>

CallTryFromI64 ==
  \E s \in Subjects :
    /\ last' = [op |-> "try_from", ty |-> "i64", arg |-> s, res |-> TryFrom_i64(s)]
    /\ UNCHANGED <<v, src, vec, pos>>

CallTryFromBool ==
  \E s \in Subjects :
    /\ last' = [op |-> "try_from", ty |-> "bool", arg |-> s, res |-> TryFrom_bool(s)]
    /\ UNCHANGED <<v, src, vec, pos>>

CallTryFromStr ==
  \E s \in Subjects :
    /\ last' = [op |-> "try_from", ty |-> "str", arg |-> s, res |-> TryFrom_str(s)]
    /\ UNCHANGED <<v, src, vec, pos>>

CallTryFromF64 ==
  \E s \in Subjects :
    /\ last' = [op |-> "try_from", ty |-> "f64", arg |-> s, res |-> TryFrom_f64(s)]
    /\ UNCHANGED <<v, src, vec, pos>>

CallTryFromDateTime ==
  \E s \in Subjects :
    /\ last' = [op |-> "try_from", ty |-> "DateTime", arg |-> s, res |-> TryFrom_DateTime(s)]
    /\ UNCHANGED <<v, src, vec, pos>>

CallTryFromVecValue ==
  \E s \in Subjects :
    /\ last' = [op |-> "try_from", ty |-> "Vec<Value>", arg |-> s, res |-> TryFrom_VecValue(s)]
    /\ UNCHANGED <<v, src, vec, pos>>

CallTryFromBTreeMap ==
  \E s \in Subjects :
    /\ last' = [op |-> "try_from", ty |-> "BTreeMap", arg |-> s, res |-> TryFrom_BTreeMap(s)]
    /\ UNCHANGED <<v, src, vec, pos>>

CallTryFromVecU8 ==
  \E s \in Subjects :
    /\ last' = [op |-> "try_from", ty |-> "Vec<u8>", arg |-> s, res |-> TryFrom_VecU8(s)]
    /\ UNCHANGED <<v, src, vec, pos>>

\* the call made on vec.drain(..): the elements taken leave the vector
CallTryCollectValue_draining ==
  \E A \in Types, B \in Types :
    LET r == try_collect_value(vec, pos, A, B)
    IN /\ vec' = SubSeq(vec, r.pos + 1, Len(vec))
       /\ pos' = 0
       /\ last' = [op |-> "try_collect_value", A |-> A, B |-> B, start |-> pos,
                   res |-> r.res, converted |-> r.converted]
       /\ UNCHANGED <<v, src>>

\* let r: Option<(A, B)> = iter.try_collect_value()
CallTryCollectValue ==
  \E A \in Types, B \in Types :
    LET r == try_collect_value(vec, pos, A, B)
    IN /\ pos' = r.pos
       /\ last' = [op |-> "try_collect_value", A |-> A, B |-> B, start |-> pos,
                   res |-> r.res, converted |-> r.converted]
       /\ UNCHANGED <<v, src, vec>>

CallAccessor ==
  \/ CallAsI32
  \/ CallAsI64
  \/ CallAsBool
  \/ CallAsStr
  \/ CallAsF64
  \/ CallAsDatetime
  \/ CallAsBytes
  \/ CallAsStruct
  \/ CallAsArray

CallTryFrom ==
  \/ CallTryFromI32
  \/ CallTryFromI64
  \/ CallTryFromBool
  \/ CallTryFromStr
  \/ CallTryFromF64
  \/ CallTryFromDateTime
  \/ CallTryFromVecValue
  \/ CallTryFromBTreeMap
  \/ CallTryFromVecU8

CallFrom ==
  \/ CallFromI32
  \/ CallFromI64
  \/ CallFromBool
  \/ CallFromString
  \/ CallFromStr
  \/ CallFromF64
  \/ CallFromDateTime
  \/ CallFromVecValue
  \/ CallFromBTreeMap
  \/ CallFromVecU8

\* a client holding one Value: it builds it and reads it
Next ==
  \/ CallFrom
  \/ CallAccessor
  \/ CallTryFrom

Spec == Init /\ [][Next]_vars

\* a client holding a vector of Values and an iterator over it (InitT): it reads
\* the elements and destructures the iterator
NextT ==
  \/ CallTryCollectValue
  \/ CallAccessor
  \/ CallTryFrom

SpecTuple == InitT /\ [][NextT]_vars

(***************************************************************************)
(* Vocabulary of the properties                                            *)
(***************************************************************************)
AccessorOps ==
  {"as_i32", "as_i64", "as_bool", "as_str", "as_f64", "as_datetime", "as_bytes",
   "as_struct", "as_array"}

\* the variant an accessor is named after
OwnVariant(op) ==
  CASE op = "as_i32" -> "Int"
    [] op = "as_i64" -> "Int64"
    [] op = "as_bool" -> "Bool"
    [] op = "as_str" -> "String"
    [] op = "as_f64" -> "Double"
    [] op = "as_datetime" -> "DateTime"
    [] op = "as_bytes" -> "Base64"
    [] op = "as_struct" -> "Struct"
    [] op = "as_array" -> "Array"

\* the variant a native target type matches
TargetVariant(T) ==
  CASE T = "i32" -> "Int"
    [] T = "i64" -> "Int64"
    [] T = "bool" -> "Bool"
    [] T = "str" -> "String"
    [] T = "f64" -> "Double"
    [] T = "DateTime" -> "DateTime"
    [] T = "Vec<u8>" -> "Base64"
    [] T = "Vec<Value>" -> "Array"
    [] T = "BTreeMap" -> "Struct"

\* the native type a Value built from an input of type ty converts back to
BackTo(ty) == IF ty \in {"String", "&str"} THEN "str" ELSE ty

\* the variant an input of native type ty is built into
BuiltVariant(ty) == TargetVariant(BackTo(ty))

\* the accessor of a native target type
AccessorOf(T, value) ==
  CASE T = "i32" -> as_i32(value)
    [] T = "i64" -> as_i64(value)
    [] T = "bool" -> as_bool(value)
    [] T = "str" -> as_str(value)
    [] T = "f64" -> as_f64(value)
    [] T = "DateTime" -> as_datetime(value)
    [] T = "Vec<u8>" -> as_bytes(value)
    [] T = "Vec<Value>" -> as_array(value)
    [] T = "BTreeMap" -> as_struct(value)

\* the last call was a tuple destructuring
Collected == last.op = "try_collect_value"

\* the iterator held at least k more elements when the destructuring began
Held(k) == last.start + k <= Len(vec)

\* the element at position k (0 or 1) of the destructuring
Position(k) == vec[last.start + k + 1]

FirstConverts == Held(1) /\ try_into(last.A, Position(0)).ok

SecondConverts == Held(2) /\ try_into(last.B, Position(1)).ok

(***************************************************************************)
(* C1                                                                      *)
(***************************************************************************)
\* C1 as stated: as_i64 returns None on every Value::Int(x), and returns Some(y)
\* only when the Value is Value::Int64(y).
C1_AsI64RefusesInt ==
  last.op = "as_i64" =>
    /\ last.arg.tag = "Int" => last.res = None
    /\ last.res.some => last.arg = Int64(last.res.val)

\* C1 amended: as_i64 returns Some(x), x widened to 64 bits, on Value::Int(x),
\* Some(y) on Value::Int64(y), and None on the eight other variants.
C1_AsI64WidensInt ==
  last.op = "as_i64" =>
    last.res = CASE last.arg.tag = "Int" -> Some(i64(last.arg.val.n))
                 [] last.arg.tag = "Int64" -> Some(last.arg.val)
                 [] OTHER -> None

C1_Witness ==
  /\ last.op = "as_i64"
  /\ last.arg = Value_Int(i32(-1))
  /\ last.res = Some(i64(-1))

(***************************************************************************)
(* C2                                                                      *)
(***************************************************************************)
\* C2: every accessor but as_i64 returns Some(payload), the payload unchanged,
\* exactly on its own variant and None on the nine others; as_i32 returns None
\* on every Value::Int64(x).
C2_AccessorsVariantExact ==
  (last.op \in AccessorOps \ {"as_i64"}) =>
    last.res = IF last.arg.tag = OwnVariant(last.op) THEN Some(last.arg.val) ELSE None

C2_Witness ==
  /\ last.op = "as_i32"
  /\ last.arg = Int64(i64(1))
  /\ last.res = None

(***************************************************************************)
(* C3                                                                      *)
(***************************************************************************)
\* C3: when the first Value converts to A and the second to B, destructuring
\* succeeds with the pair of the two payloads in sequence order.
C3_TupleSucceedsInOrder ==
  (Collected /\ FirstConverts /\ SecondConverts) =>
    last.res = Some(<<Position(0).val, Position(1).val>>)

C3_Witness ==
  /\ Collected
  /\ vec = <<Value_Int(i32(1)), String(<<"2">>)>>
  /\ last.start = 0
  /\ last.A = "i32"
  /\ last.B = "str"
  /\ last.res = Some(<<i32(1), <<"2">>>>)

(***************************************************************************)
(* C4                                                                      *)
(***************************************************************************)
\* C4: destructuring returns None, never a partial pair, when fewer than two
\* Values are left or position 0 does not convert to A or position 1 does not
\* convert to B; it returns Some only when every position converts.
C4_TupleFailsAsAWhole ==
  Collected =>
    /\ ~(FirstConverts /\ SecondConverts) => last.res = None
    /\ last.res.some => FirstConverts /\ SecondConverts

C4_Witness ==
  /\ Collected
  /\ vec = <<String(<<"x">>), Value_Int(i32(1))>>
  /\ last.start = 0
  /\ last.A = "i32"
  /\ last.B = "str"
  /\ last.res = None

(***************************************************************************)
(* C5                                                                      *)
(***************************************************************************)
\* C5: a strict conversion returns Ok(payload), the payload unchanged, exactly
\* when the Value bears the target type's variant, and Err on every other
\* variant: &i64 from Value::Int, &i32 from Value::Int64 and every target from
\* Nil fail.
C5_StrictVariantExact ==
  last.op = "try_from" =>
    /\ last.res = IF last.arg.tag = TargetVariant(last.ty) THEN Ok(last.arg.val) ELSE Err
    /\ last.arg = Nil => last.res = Err

C5_Witness ==
  /\ last.op = "try_from"
  /\ last.ty = "i64"
  /\ last.arg = Value_Int(i32(1))
  /\ last.res = Err

(***************************************************************************)
(* C6                                                                      *)
(***************************************************************************)
\* C6: Value::from maps each native type to its one variant with the input as
\* the payload; an i32 never yields Int64, an i64 yields Int64 even when it fits
\* 32 bits, so the Values built from the same number as i32 and as i64 differ.
C6_ConstructionExact ==
  last.op = "from" =>
    /\ last.res = [tag |-> BuiltVariant(last.ty), val |-> last.arg]
    /\ last.ty = "i32" => last.res.tag # "Int64" /\ last.res # From_i64(i64(last.arg.n))
    /\ last.ty = "i64" => last.res.tag = "Int64" /\ last.res # From_i32(i32(last.arg.n))

C6_Witness ==
  /\ last.op = "from"
  /\ last.ty = "i64"
  /\ last.arg = i64(1)
  /\ i32(last.arg.n) \in I32Vals
  /\ last.res = Int64(i64(1))

(***************************************************************************)
(* C7                                                                      *)
(***************************************************************************)
\* C7: the strict conversion of Value::from(x) back to the native type of x
\* returns x, and its strict conversion to any other native type fails.
C7_ConstructThenExtract ==
  (last.op = "try_from" /\ src.ty # "none") =>
    /\ last.arg = v
    /\ last.res = IF last.ty = BackTo(src.ty) THEN Ok(src.val) ELSE Err

C7_Witness ==
  /\ last.op = "try_from"
  /\ src.ty = "&str"
  /\ src.val = <<"2">>
  /\ last.ty = "str"
  /\ last.res = Ok(<<"2">>)

(***************************************************************************)
(* C8                                                                      *)
(***************************************************************************)
\* the step is a call of an accessor, a strict conversion or a destructuring
ReadingCall == last'.op \in AccessorOps \cup {"try_from", "try_collect_value"}

\* C8 as stated: an accessor, a strict conversion or a tuple destructuring
\* leaves the Values unchanged and modifies no other state.
C8_NoStateModified ==
  [][ReadingCall => (v' = v /\ src' = src /\ vec' = vec /\ pos' = pos)]_vars

\* C8 amended: an accessor or a strict conversion modifies no state; a tuple
\* destructuring leaves every Value unchanged and modifies one thing, the
\* position of the iterator it is applied to, which it advances by at most 2.
C8_OnlyIteratorAdvances ==
  [][/\ ReadingCall => (v' = v /\ src' = src /\ vec' = vec)
     /\ (ReadingCall /\ last'.op # "try_collect_value") => pos' = pos
     /\ last'.op = "try_collect_value" => (pos <= pos' /\ pos' <= pos + 2)]_vars

C8_Witness ==
  /\ Collected
  /\ last.res = None
  /\ pos = last.start + 2
  /\ vec = <<Value_Int(i32(1)), Value_Int(i32(1)), String(<<"x">>)>>

(***************************************************************************)
(* C9                                                                      *)
(***************************************************************************)
\* C9: destructuring takes the positions in turn and stops at the first
\* failure: on success the iterator has advanced by exactly 2; when position 0
\* is missing or does not convert, position 1 is not taken (advance at most 1);
\* otherwise the advance is at most 2; position 1 is never converted before
\* position 0.
C9_ConsumesInTurn ==
  Collected =>
    /\ last.res.some => pos = last.start + 2
    /\ ~FirstConverts => (pos <= last.start + 1 /\ Len(last.converted) <= 1)
    /\ ~Held(1) => (pos = last.start /\ last.converted = <<>>)
    /\ pos >= last.start /\ pos <= last.start + 2
    /\ last.converted \in {<<>>, <<last.start + 1>>, <<last.start + 1, last.start + 2>>}
    /\ Len(last.converted) <= pos - last.start

C9_Witness ==
  /\ Collected
  /\ vec = <<Value_Int(i32(1)), String(<<"2">>), String(<<"x">>)>>
  /\ last.start = 0
  /\ last.A = "i32"
  /\ last.B = "str"
  /\ last.res.some
  /\ pos = 2
  /\ pos < Len(vec)

(***************************************************************************)
(* C10                                                                     *)
(***************************************************************************)
\* C10 as stated: for every target type and every Value the accessor returns
\* Some(p) exactly when the strict conversion returns Ok(p), and None exactly
\* when it fails.
C10_IdiomsAgree ==
  last.op = "try_from" => AccessorOf(last.ty, last.arg) = ok(last.res)

\* C10 amended: the two idioms agree for every target type and every Value but
\* one pair: on Value::Int(x) the accessor as_i64 returns Some(x) while the
\* strict conversion to &i64 fails.
C10_IdiomsAgreeButI64OnInt ==
  last.op = "try_from" =>
    IF last.ty = "i64" /\ last.arg.tag = "Int"
    THEN last.res = Err /\ AccessorOf(last.ty, last.arg) = Some(i64(last.arg.val.n))
    ELSE AccessorOf(last.ty, last.arg) = ok(last.res)

C10_Witness ==
  /\ last.op = "try_from"
  /\ last.ty = "i64"
  /\ last.arg = Value_Int(i32(1))
  /\ last.res = Err
  /\ as_i64(last.arg) = Some(i64(1))
====
